---- MODULE Spec2Model ----
(***************************************************************************)
(* Colour-scale / statistics engine of the climate risk tool               *)
(* (src/src/utils/colorMapping.js and the risk_direction revision of the   *)
(* same module, src/unnamed/part_007).                                     *)
(*                                                                         *)
(* Numbers.  A JavaScript Number is a binary floating-point value.  The    *)
(* model keeps the rounding of the arithmetic: a number is an integer      *)
(* count of the smallest positive value of the format, 2^-FracBits, and a  *)
(* value is representable when its magnitude fits in Prec significant      *)
(* bits (times a power of two).  N(x) is the number x of the source.       *)
(* Every +, -, *, / of the code is the exact result rounded to the nearest *)
(* representable value, ties to even, as IEEE 754 does it (there Prec is   *)
(* 53).  Comparison, negation, Math.abs, Math.min and Math.max are exact.  *)
(*                                                                         *)
(* Array entries.  An entry of a value array is a record: a number, null,  *)
(* undefined or NaN.                                                       *)
(***************************************************************************)
EXTENDS Integers, Sequences, FiniteSets, TLC

VARIABLES
    values,         \* the value array handed to the functions
    metadata,       \* the index metadata handed to getColorScale
    stats,          \* what calculateStatistics returned last
    scale,          \* what getColorScale returned last
    probe,          \* the value handed to getColorForValue last
    color,          \* what getColorForValue returned last
    geojson,        \* the feature collection handed to aggregateByDistrict
    districts,      \* what aggregateByDistrict returned last
    outcome,        \* "none", "returned" or "threw": how the last call ended
    steps,          \* the steps argument handed to generateLegendItems last
    items,          \* what generateLegendItems returned last
    direction,      \* the code handed to getInterpretationLabels last
    labels,         \* what getInterpretationLabels returned last
    revision,       \* the revision of getInterpretationLabels called last
    scenario,       \* ClimateContext: the selected scenario
    period,         \* ClimateContext: the selected period
    index,          \* ClimateContext: the selected index
    comparisonMode,     \* ClimateContext: side-by-side comparison shown
    comparisonScenario, \* ClimateContext: the scenario of panel B
    geojsonData,    \* ClimateContext: the data of the single map
    loading,        \* ClimateContext: a fetchClimateData call is running
    error,          \* ClimateContext: the message of the last failure
    geojsonA,       \* ComparisonView: the data of panel A
    geojsonB,       \* ComparisonView: the data of panel B
    loadingA,       \* ComparisonView: the spinner of panel A
    loadingB,       \* ComparisonView: the spinner of panel B
    fetchingA,      \* ComparisonView: fetchingA.current
    fetchingB,      \* ComparisonView: fetchingB.current
    inFlight,       \* the requests of getClimateGeoJSON awaiting their answer
    latestMain,     \* how the fetchClimateData call started last has ended
    panelFailed,    \* a request of the mounted ComparisonView has failed
    mapView,        \* MapSync: centre and zoom of the maps A and B
    isSyncing,      \* MapSync: isSyncingRef.current of either MapSync
    events,         \* MapSync: the Leaflet events fired and not yet handled
    setViewCalls,   \* MapSync: setView calls since the user's last action
    movedLast,      \* MapSync: the map the user moved last
    isPlaying,      \* TimeSeriesPlayer: the animation runs
    indexList,      \* filterBySector: the indices handed to it
    selectedSector, \* filterBySector: the target sector handed to it
    bySector        \* filterBySector: the array it returned

\* the variables of the legend functions
legendVars == <<steps, items, direction, labels, revision>>

\* the selected configuration
configVars == <<scenario, period, index, comparisonMode, comparisonScenario>>

\* the state of fetchClimateData
mainVars == <<geojsonData, loading, error, latestMain>>

\* the state of the ComparisonView panels
panelVars == <<geojsonA, geojsonB, loadingA, loadingB, fetchingA, fetchingB,
               panelFailed>>

\* the variables of the application around the engine
fetchVars == <<configVars, mainVars, panelVars, inFlight>>

\* the arguments and the result of filterBySector
sectorVars == <<indexList, selectedSector, bySector>>

\* the variables of TimeSeriesPlayer beside the period of ClimateContext
playerVars == <<isPlaying>>

\* the variables of the two MapSync components
mapVars == <<mapView, isSyncing, events, setViewCalls, movedLast>>

\* the variables of the components beside the fetches
componentVars == <<mapVars, playerVars, sectorVars>>

\* the variables of the engine's functions
engineVars == <<values, metadata, stats, scale, probe, color, geojson,
                districts, outcome, legendVars>>

vars == <<values, metadata, stats, scale, probe, color, geojson, districts,
          outcome, legendVars, fetchVars, componentVars>>

----------------------------------------------------------------------------
\* Bounds of the model

\* significant bits of the floating-point format
Prec == 5

\* binary digits after the point of the smallest positive number
FracBits == 1

\* longest value array handed to calculateStatistics
MaxLen == 4

\* longest value array handed to getColorScale
MaxSample == 2

\* most features of a feature collection
MaxFeatures == 2

\* largest steps argument handed to generateLegendItems
MaxSteps == 8

\* most requests awaiting their answer at a time
MaxInFlight == 2

\* the longest list of indices handed to filterBySector
MaxIndices == 2

----------------------------------------------------------------------------
\* Array entries and numbers

\* the number x of the source, counted in units of 2^-FracBits
N(x) == x * 2^FracBits

Num(n) == [kind |-> "number", n |-> n]

NULL == [kind |-> "null", n |-> 0]

UNDEFINED == [kind |-> "undefined", n |-> 0]

NAN == [kind |-> "NaN", n |-> 0]

Invalid == {NULL, UNDEFINED, NAN}

\* the numbers the value arrays of calculateStatistics are drawn from
StatNumbers == {N(-3), N(0), N(1), N(2), N(3), N(4), N(11)}

StatEntries == {Num(n) : n \in StatNumbers} \cup Invalid

\* sequences over S of length 0..n
SeqsUpTo(S, n) == UNION {[1..k -> S] : k \in 0..n}

Abs(x) == IF x < 0 THEN -x ELSE x

\* smallest e >= 0 for which a / (d * 2^e) fits in Prec bits
RECURSIVE Exponent(_, _, _)
Exponent(a, d, e) ==
    IF a \div (d * 2^e) < 2^Prec THEN e ELSE Exponent(a, d, e + 1)

\* the exact quotient n / d (d > 0) rounded to the nearest representable
\* number, ties to the even significand
Round(n, d) ==
    LET a == Abs(n)
        e == Exponent(a, d, 0)
        w == d * 2^e
        q == a \div w
        r == a - q * w
        m == IF 2 * r < w THEN q
             ELSE IF 2 * r > w THEN q + 1
             ELSE IF q % 2 = 0 THEN q ELSE q + 1
    IN  (IF n < 0 THEN -1 ELSE 1) * m * 2^e

\* x + y
Add(x, y) == Round(x + y, 1)

\* x - y
Sub(x, y) == Round(x - y, 1)

\* Math.pow(x, 2); the square of x units is x * x / 2^FracBits units
Square(x) == Round(x * x, 2^FracBits)

\* the largest r with r * r <= x
RECURSIVE ISqrtFrom(_, _)
ISqrtFrom(x, r) == IF (r + 1) * (r + 1) > x THEN r ELSE ISqrtFrom(x, r + 1)

RECURSIVE SqrtExponent(_, _)
SqrtExponent(y, e) ==
    IF ISqrtFrom(y \div 4^e, 0) < 2^Prec THEN e ELSE SqrtExponent(y, e + 1)

\* Math.sqrt(x) for x >= 0, rounded to the nearest representable number;
\* the root of x units is the root of x * 2^FracBits, in units
Sqrt(x) ==
    LET y == x * 2^FracBits
        e == SqrtExponent(y, 0)
        q == ISqrtFrom(y \div 4^e, 0)
        mid == (2 * q + 1) * (2 * q + 1) * 4^e
        m == IF 4 * y < mid THEN q
             ELSE IF 4 * y > mid THEN q + 1
             ELSE IF q % 2 = 0 THEN q ELSE q + 1
    IN  m * 2^e

\* x / y for y > 0
Div(x, y) == Round(x, y)

\* isNaN(v): Number(undefined) is NaN, Number(null) is 0
isNaN(v) ==
    CASE v.kind = "NaN" -> TRUE
      [] v.kind = "undefined" -> TRUE
      [] v.kind = "null" -> FALSE
      [] OTHER -> FALSE

\* v => v !== null && v !== undefined && !isNaN(v)
IsValid(v) == v # NULL /\ v # UNDEFINED /\ ~isNaN(v)

\* values.filter(IsValid), as numbers
ValidValues(vals) ==
    LET kept == SelectSeq(vals, IsValid)
    IN  [i \in 1..Len(kept) |-> kept[i].n]

\* s with x inserted before the first element greater than x
RECURSIVE Insert(_, _)
Insert(s, x) ==
    IF s = <<>> THEN <<x>>
    ELSE IF Head(s) > x THEN <<x>> \o s
    ELSE <<Head(s)>> \o Insert(Tail(s), x)

\* s with x inserted before the first element smaller than x
RECURSIVE InsertDesc(_, _)
InsertDesc(s, x) ==
    IF s = <<>> THEN <<x>>
    ELSE IF Head(s) < x THEN <<x>> \o s
    ELSE <<Head(s)>> \o InsertDesc(Tail(s), x)

\* the comparator written (a, b) => b - a: descending
RECURSIVE SortDesc(_)
SortDesc(s) ==
    IF s = <<>> THEN <<>>
    ELSE InsertDesc(SortDesc(SubSeq(s, 1, Len(s) - 1)), s[Len(s)])

\* [...v].sort((a, b) => a - b): ascending, stable
RECURSIVE SortAsc(_)
SortAsc(s) ==
    IF s = <<>> THEN <<>>
    ELSE Insert(SortAsc(SubSeq(s, 1, Len(s) - 1)), s[Len(s)])

\* v.reduce((acc, val) => acc + val, 0): left to right, every + rounded
RECURSIVE Sum(_)
Sum(s) ==
    IF s = <<>> THEN 0
    ELSE Add(Sum(SubSeq(s, 1, Len(s) - 1)), s[Len(s)])

----------------------------------------------------------------------------
\* calculateStatistics

NoStats == [kind |-> "none"]

Stats(mn, mx, mean, median) ==
    [kind |-> "stats", min |-> mn, max |-> mx, mean |-> mean, median |-> median]

\* the lower of the two middle positions
MedianIndexLower(n) == ((n - 1) \div 2) + 1

\* Math.floor(sorted.length / 2), as a 1-based index

MedianIndex(n) == (n \div 2) + 1

\* the empty sample answered with getColorScale's -1 / 1 instead of zeros
calculateStatisticsEmptyFallback(vals) ==
    LET validValues == ValidValues(vals)
        sorted == SortAsc(validValues)
    IN  Stats(IF sorted = <<>> THEN N(-1) ELSE sorted[1],
              IF sorted = <<>> THEN N(1) ELSE sorted[Len(sorted)],
              IF sorted = <<>> THEN 0 ELSE Div(Sum(validValues), Len(validValues)),
              IF sorted = <<>> THEN 0 ELSE sorted[MedianIndex(Len(sorted))])

calculateStatistics(vals) ==
    LET validValues == ValidValues(vals)
    IN  IF Len(validValues) = 0 THEN Stats(0, 0, 0, 0)
        ELSE LET sorted == SortAsc(validValues)
                 min == sorted[1]
                 max == sorted[Len(sorted)]
                 sum == Sum(validValues)
                 mean == Div(sum, Len(validValues))
                 median == sorted[MedianIndex(Len(sorted))]
             IN  Stats(min, max, mean, median)

----------------------------------------------------------------------------
\* Index metadata

\* an absent metadata argument
NoMetadata == [kind |-> "null"]

UndefinedMetadata == [kind |-> "undefined"]

\* a metadata record; a field the record lacks reads "undefined"
Metadata(type, scheme, anomaly, risk) ==
    [kind |-> "object", color_palette_type |-> type, color_scheme |-> scheme,
     anomaly_direction |-> anomaly, risk_direction |-> risk]

PaletteTypes == {"diverging", "sequential"}

ColorSchemeNames == {"RdBu_r", "BuRd", "RdBu", "Spectral", "undefined"}

AnomalyDirections == {"positive_bad", "positive_good", "undefined"}

RiskDirections == {"higher_worse", "lower_worse"}

MetadataRecords ==
    {Metadata(t, c, a, r) : t \in PaletteTypes, c \in ColorSchemeNames,
                            a \in AnomalyDirections, r \in RiskDirections}

----------------------------------------------------------------------------
\* chroma-js scales, as far as the module uses them: chroma.scale(colors)
\* .domain(domain).mode(mode) is a scale object, and calling it on a number
\* gives a colour

BLUE == "#2166ac"

WHITE == "#f7f7f7"

RED == "#b2182b"

FALLBACK_BLUE == "#3388ff"

NoScale == [kind |-> "none"]

Threw == [kind |-> "threw"]

chromaScale(colors, domain, mode) ==
    [kind |-> "scale", colors |-> colors, domain |-> domain, mode |-> mode]

\* a colour: the control colour c itself (num = 0), or the colour num/den
\* of the way from control colour lo to control colour hi
Hex(c) == [lo |-> c, hi |-> c, num |-> 0, den |-> 1]

RECURSIVE GCD(_, _)
GCD(a, b) == IF b = 0 THEN a ELSE GCD(b, a % b)

Mix(c1, c2, num, den) ==
    IF c1 = c2 THEN Hex(c1)
    ELSE [lo |-> c1, hi |-> c2, num |-> num \div GCD(num, den),
          den |-> den \div GCD(num, den)]

\* colorScale(v): the value is clamped to the domain; a control point of the
\* domain gives its control colour, a value between two control points the
\* interpolation of their colours; a one-colour scale is that colour
\* everywhere; on a domain of width zero chroma-js takes the last colour
RECURSIVE SegmentColor(_, _, _, _)
SegmentColor(colors, domain, v, i) ==
    IF v <= domain[i] THEN Hex(colors[i])
    ELSE IF i = Len(domain) THEN Hex(colors[i])
    ELSE IF v < domain[i + 1]
         THEN Mix(colors[i], colors[i + 1], v - domain[i], domain[i + 1] - domain[i])
    ELSE SegmentColor(colors, domain, v, i + 1)

chromaScaleAt(sc, v) ==
    LET colors == IF Len(sc.colors) = 1 THEN <<sc.colors[1], sc.colors[1]>>
                  ELSE sc.colors
        lo == sc.domain[1]
        hi == sc.domain[Len(sc.domain)]
    IN  IF lo = hi THEN Hex(colors[Len(colors)])
        ELSE SegmentColor(colors, sc.domain, v, 1)

----------------------------------------------------------------------------
\* getColorScale

COLOR_SCHEMES_ColorBrewer ==
    [RdBu_r |-> <<BLUE, WHITE, RED>>,
     BuRd   |-> <<BLUE, WHITE, RED>>,
     RdBu   |-> <<RED, WHITE, BLUE>>]

COLOR_SCHEMES ==
    [RdBu_r |-> <<BLUE, WHITE, RED>>,
     BuRd   |-> <<RED, WHITE, BLUE>>,
     RdBu   |-> <<BLUE, WHITE, RED>>]

\* the metadata guard written as indexMetadata === null
AbsentNullOnly(indexMetadata) == indexMetadata.kind = "null"

\* !indexMetadata
Absent(indexMetadata) == indexMetadata.kind \in {"null", "undefined"}

\* Math.min(...v) and Math.max(...v) of a non-empty v
RECURSIVE MathMin(_)
MathMin(v) ==
    IF Len(v) = 1 THEN v[1]
    ELSE LET m == MathMin(Tail(v)) IN IF v[1] < m THEN v[1] ELSE m

RECURSIVE MathMax(_)
MathMax(v) ==
    IF Len(v) = 1 THEN v[1]
    ELSE LET m == MathMax(Tail(v)) IN IF v[1] > m THEN v[1] ELSE m

\* absMax with Math.abs forgotten on min
SampleAbsMaxNoAbs(vals) ==
    LET validValues == ValidValues(vals)
        min == IF Len(validValues) > 0 THEN MathMin(validValues) ELSE N(-1)
        max == IF Len(validValues) > 0 THEN MathMax(validValues) ELSE N(1)
    IN  IF min > max THEN min ELSE max

\* validValues, min, max and absMax of getColorScale
SampleAbsMax(vals) ==
    LET validValues == ValidValues(vals)
        min == IF Len(validValues) > 0 THEN MathMin(validValues) ELSE N(-1)
        max == IF Len(validValues) > 0 THEN MathMax(validValues) ELSE N(1)
    IN  IF Abs(min) > Abs(max) THEN Abs(min) ELSE Abs(max)

\* the palette turned round when anomaly_direction says positive is good
SchemeColorsByDirection(indexMetadata) ==
    LET colors == IF indexMetadata.color_scheme \in DOMAIN COLOR_SCHEMES
                  THEN COLOR_SCHEMES[indexMetadata.color_scheme]
                  ELSE COLOR_SCHEMES["RdBu_r"]
    IN  IF indexMetadata.anomaly_direction = "positive_good"
        THEN <<colors[3], colors[2], colors[1]>>
        ELSE colors

\* COLOR_SCHEMES[color_scheme] || COLOR_SCHEMES['RdBu_r']
SchemeColors(indexMetadata) ==
    IF indexMetadata.color_scheme \in DOMAIN COLOR_SCHEMES
    THEN COLOR_SCHEMES[indexMetadata.color_scheme]
    ELSE COLOR_SCHEMES["RdBu_r"]

getColorScale(indexMetadata, vals) ==
    IF Absent(indexMetadata)
    THEN chromaScale(<<FALLBACK_BLUE>>, <<0, N(1)>>, "rgb")
    ELSE IF indexMetadata.kind # "object"
    THEN Threw  \* destructuring null or undefined is a TypeError
    ELSE LET absMax == SampleAbsMax(vals)
         IN  IF indexMetadata.color_palette_type = "diverging"
             THEN LET colors == SchemeColors(indexMetadata)
                      domain == <<-absMax, 0, absMax>>
                  IN  chromaScale(colors, domain, "lab")
             ELSE chromaScale(<<BLUE, WHITE, RED>>, <<-absMax, 0, absMax>>, "lab")

----------------------------------------------------------------------------
\* getColorScale, the revision of src/unnamed/part_007

\* the nine colours from blue to red
BLUE_TO_RED ==
    <<"#2166ac", "#4393c3", "#92c5de", "#d1e5f0", "#f7f7f7",
      "#fddbc7", "#f4a582", "#d6604d", "#b2182b">>

Reversed(colors) ==
    [i \in 1..Len(colors) |-> colors[Len(colors) + 1 - i]]

\* switch (color_scheme)
SchemeColors_part_007(color_scheme) ==
    IF color_scheme \in {"BuRd", "RdBu"} THEN Reversed(BLUE_TO_RED)
    ELSE BLUE_TO_RED

\* a switch on the direction that sets the domain only
DirectionColorsKept(colors, risk) == colors

\* switch (direction): every case assigns colors anew
DirectionColors(colors, risk) ==
    IF risk \in {"lower_worse", "neutral"}
    THEN <<RED, WHITE, BLUE>>
    ELSE <<BLUE, WHITE, RED>>

getColorScale_part_007(indexMetadata, vals) ==
    IF Absent(indexMetadata)
    THEN chromaScale(<<FALLBACK_BLUE>>, <<0, N(1)>>, "rgb")
    ELSE LET risk == indexMetadata.risk_direction
             absMax == SampleAbsMax(vals)
             colors == SchemeColors_part_007(indexMetadata.color_scheme)
             domain == <<-absMax, 0, absMax>>
         IN  chromaScale(DirectionColors(colors, risk), domain, "lab")

----------------------------------------------------------------------------
\* getColorForValue

GRAY == "#cccccc"

NoColor == [kind |-> "none"]

\* the missing-value test written as !value, which takes 0 for missing
getColorForValueFalsy(value, colorScale) ==
    IF value = NULL \/ value = UNDEFINED \/ isNaN(value) \/ value.n = 0
    THEN Hex(GRAY)
    ELSE chromaScaleAt(colorScale, value.n)

\* the missing-value test written as value == null, which lets NaN through
getColorForValueNullish(value, colorScale) ==
    IF value = NULL \/ value = UNDEFINED
    THEN Hex(GRAY)
    ELSE chromaScaleAt(colorScale, value.n)

getColorForValue(value, colorScale) ==
    IF value = NULL \/ value = UNDEFINED \/ isNaN(value)
    THEN Hex(GRAY)
    ELSE chromaScaleAt(colorScale, value.n)

----------------------------------------------------------------------------
\* generateLegendItems

INFINITY == [kind |-> "Infinity", n |-> 0]

NoItems == [kind |-> "none"]

\* a returned array of legend items
ItemsArray(array) == [kind |-> "array", array |-> array]

\* x / y for a number x >= 0 and an integer y of either sign: x / 0 is
\* Infinity, 0 / 0 is NaN
Quotient(x, y) ==
    IF y = 0 THEN (IF x = 0 THEN NAN ELSE INFINITY)
    ELSE IF y < 0 THEN Num(-Div(x, -y))
    ELSE Num(Div(x, y))

\* step * i for the integer i >= 0: Infinity * 0 and NaN * i are NaN
Times(step, i) ==
    IF step.kind = "number" THEN Num(Round(step.n * i, 1))
    ELSE IF i = 0 THEN NAN
    ELSE step

\* min + y
Plus(min, y) == IF y.kind = "number" THEN Num(Add(min, y.n)) ELSE y

\* value.toFixed(2): the hundredths nearest to the magnitude (the larger
\* of two equally near), with the sign of the value; NaN gives "NaN"
toFixed2(value) ==
    IF value.kind = "number"
    THEN [kind |-> "fixed", negative |-> value.n < 0,
          hundredths |-> (Abs(value.n) * 200 + 2^FracBits) \div (2 * 2^FracBits)]
    ELSE [kind |-> value.kind]

\* colorScale(value).hex(): chroma-js gives its no-data colour '#ccc' for
\* NaN
chromaScaleHex(colorScale, value) ==
    IF value.kind = "NaN" THEN Hex("#cccccc")
    ELSE chromaScaleAt(colorScale, value.n)

generateLegendItems(colorScale, n) ==
    LET domain == colorScale.domain
        min == domain[1]
        max == domain[Len(domain)]
        step == Quotient(Sub(max, min), n - 1)
    IN  [k \in 1..n |->
            LET i == k - 1
                value == Plus(min, Times(step, i))
            IN  [value |-> value,
                 color |-> chromaScaleHex(colorScale, value),
                 label |-> toFixed2(value)]]

----------------------------------------------------------------------------
\* getInterpretationLabels

NoLabels == [kind |-> "none"]

Labels(positive, negative, neutral) ==
    [kind |-> "labels", positive |-> positive, negative |-> negative,
     neutral |-> neutral]

\* the table with the labels of 'positive_good' exchanged
getInterpretationLabelsSwapped(code) ==
    CASE code = "positive_bad" -> Labels("Worse", "Better", "No Change")
      [] code = "positive_good" -> Labels("Worse", "Better", "No Change")
      [] code = "negative_warming" -> Labels("Cooling", "Warming", "No Change")
      [] code = "positive_warming" -> Labels("Warming", "Cooling", "No Change")
      [] code = "neutral" -> Labels("Increase", "Decrease", "No Change")
      [] OTHER -> Labels("Increase", "Decrease", "No Change")

\* src/src/utils/colorMapping.js, keyed by anomaly_direction
getInterpretationLabels(code) ==
    CASE code = "positive_bad" -> Labels("Worse", "Better", "No Change")
      [] code = "positive_good" -> Labels("Better", "Worse", "No Change")
      [] code = "negative_warming" -> Labels("Cooling", "Warming", "No Change")
      [] code = "positive_warming" -> Labels("Warming", "Cooling", "No Change")
      [] code = "neutral" -> Labels("Increase", "Decrease", "No Change")
      [] OTHER -> Labels("Increase", "Decrease", "No Change")

\* the revision of src/unnamed/part_007, keyed by risk_direction
getInterpretationLabels_part_007(code) ==
    CASE code = "higher_worse" -> Labels("Worse", "Better", "No Change")
      [] code = "lower_worse" ->
             Labels("Better/Cooling", "Worse/Warming", "No Change")
      [] code = "neutral" -> Labels("Increase", "Decrease", "No Change")
      [] OTHER -> Labels("Increase", "Decrease", "No Change")

\* no call of the legend functions made yet
NoLegendCall ==
    /\ steps = 7
    /\ items = NoItems
    /\ direction = "undefined"
    /\ labels = NoLabels
    /\ revision = "colorMapping.js"

----------------------------------------------------------------------------
\* aggregateByDistrict and calculateStdDev

\* an absent collection, and an object without a features member
NoGeojson == [kind |-> "null"]

NoFeatures == [kind |-> "object"]

FeatureCollection(features) ==
    [kind |-> "FeatureCollection", features |-> features]

\* properties of a feature; municipality_name and municipality_code travel
\* with id, district_name with district_code
Feature(id, code, value, area) ==
    [id |-> id, district_code |-> code, value |-> value, area_km2 |-> area]

DistrictName(code) == code

NoDistricts == [kind |-> "none"]

\* {}
EmptyObject == [c \in {} |-> NoDistricts]

\* the sample standard deviation, with divisor n - 1
calculateStdDevSample(vals) ==
    LET validValues == ValidValues(vals)
        n == Len(validValues)
    IN  IF n <= 1 THEN 0
        ELSE LET mean == Div(Sum(validValues), n)
                 squares == [i \in 1..n |-> Square(Sub(validValues[i], mean))]
                 variance == Div(Sum(squares), n - 1)
             IN  Sqrt(variance)

calculateStdDev(vals) ==
    LET validValues == ValidValues(vals)
        n == Len(validValues)
    IN  IF n = 0 THEN 0
        ELSE LET mean == Div(Sum(validValues), n)
                 squares == [i \in 1..n |-> Square(Sub(validValues[i], mean))]
                 variance == Div(Sum(squares), n)
             IN  Sqrt(variance)

\* a missing area counted as 1
AreaOrOne(area) == IF area.kind = "number" /\ area.n # 0 THEN area.n ELSE N(1)

\* props.area_km2 || 0
AreaOrZero(area) == IF area.kind = "number" /\ area.n # 0 THEN area.n ELSE 0

\* one pass of the forEach over the features
AddFeature(acc, props) ==
    LET districtCode == props.district_code
        district ==
            IF districtCode \in DOMAIN acc THEN acc[districtCode]
            ELSE [code |-> districtCode, name |-> DistrictName(districtCode),
                  municipalities |-> <<>>, values |-> <<>>, count |-> 0,
                  totalArea |-> 0]
        updated ==
            [district EXCEPT
                !.municipalities =
                    Append(@, [id |-> props.id, value |-> props.value,
                               area |-> props.area_km2]),
                !.values = IF IsValid(props.value) THEN Append(@, props.value)
                           ELSE @,
                !.count = @ + 1,
                !.totalArea = Add(@, AreaOrZero(props.area_km2))]
    IN  [c \in DOMAIN acc \cup {districtCode} |->
            IF c = districtCode THEN updated ELSE acc[c]]

\* the forEach taken from the last feature to the first
RECURSIVE GroupFeaturesBackwards(_)
GroupFeaturesBackwards(features) ==
    IF features = <<>> THEN EmptyObject
    ELSE AddFeature(GroupFeaturesBackwards(Tail(features)), features[1])

RECURSIVE GroupFeatures(_)
GroupFeatures(features) ==
    IF features = <<>> THEN EmptyObject
    ELSE AddFeature(GroupFeatures(SubSeq(features, 1, Len(features) - 1)),
                    features[Len(features)])

\* the statistics stored on a district
WithStatistics(district) ==
    LET st == calculateStatistics(district.values)
    IN  [code |-> district.code, name |-> district.name,
         municipalities |-> district.municipalities,
         values |-> district.values, count |-> district.count,
         totalArea |-> district.totalArea,
         aggregatedValue |-> st.mean, min |-> st.min, max |-> st.max,
         median |-> st.median, stdDev |-> calculateStdDev(district.values)]

aggregateByDistrict(g) ==
    IF g.kind = "null" \/ g.kind = "undefined" \/ g.kind # "FeatureCollection"
    THEN EmptyObject
    ELSE LET grouped == GroupFeatures(g.features)
         IN  [c \in DOMAIN grouped |-> WithStatistics(grouped[c])]

----------------------------------------------------------------------------
\* The application around the engine: ClimateContext, the fetch effect of
\* App, and the two panels of ComparisonView

\* constants.js
SCENARIOS == <<"ssp126", "ssp245", "ssp370", "ssp585">>

\* the scenarios, periods and indices the user picks from
ScenarioChoices == {"ssp245", "ssp585"}

PeriodChoices == {"near-term_2021-2040", "mid-term_2041-2060"}

IndexChoices == {"cdd", "prcptot"}

\* err.message of a failed request; the empty message is falsy
ErrorMessages == {"Network Error", ""}

NoResponse == [kind |-> "null"]

\* response.data of GET /climate-data/geojson/{scenario}/{period}/{index}
Response(params) ==
    [kind |-> "FeatureCollection", scenario |-> params[1],
     period |-> params[2], index |-> params[3]]

NoError == [kind |-> "null"]

ErrorMessage(text) == [kind |-> "string", text |-> text]

\* a request awaiting its answer: owner is "main" (fetchClimateData), "A"
\* or "B" (fetchDataA, fetchDataB); latest marks the fetchClimateData call
\* started last, mounted a panel request whose ComparisonView is still
\* mounted
Request(owner, params, latest, mounted) ==
    [owner |-> owner, params |-> params, latest |-> latest,
     mounted |-> mounted]

\* inFlight maps every request awaiting its answer to the number of its
\* copies
NoRequests == [r \in {} |-> 0]

Copies(b, r) == IF r \in DOMAIN b THEN b[r] ELSE 0

WithRequest(b, r) ==
    [x \in DOMAIN b \cup {r} |-> Copies(b, x) + (IF x = r THEN 1 ELSE 0)]

WithoutRequest(b, r) ==
    [x \in {y \in DOMAIN b : y # r \/ b[y] > 1} |->
        IF x = r THEN b[x] - 1 ELSE b[x]]

RECURSIVE CountOver(_, _)
CountOver(b, rs) ==
    IF rs = {} THEN 0
    ELSE LET r == CHOOSE x \in rs : TRUE
         IN  b[r] + CountOver(b, rs \ {r})

InFlightCount(b) == CountOver(b, DOMAIN b)

\* the requests with the marks latest and mounted cleared on those of
\* the owners given
Unmarked(b, owners) ==
    LET plain(r) == IF r.owner \in owners
                    THEN Request(r.owner, r.params, FALSE, FALSE)
                    ELSE r
    IN  [x \in {plain(r) : r \in DOMAIN b} |->
            CountOver(b, {r \in DOMAIN b : plain(r) = x})]

\* fetchClimateData up to its await: setLoading(true), setError(null), and
\* the request of getClimateGeoJSON(scenario, period, index)
StartMain(b, params) ==
    WithRequest(Unmarked(b, {"main"}),
                Request("main", params, TRUE, FALSE))

\* fetchDataA / fetchDataB up to the await, when the ref is not set
StartPanel(b, owner, params) ==
    WithRequest(b, Request(owner, params, FALSE, TRUE))

\* SCENARIOS.find(s => s.value !== scenario)
OtherScenario(current) ==
    LET k == CHOOSE i \in 1..Len(SCENARIOS) :
                 /\ SCENARIOS[i] # current
                 /\ \A j \in 1..(i - 1) : SCENARIOS[j] = current
    IN  SCENARIOS[k]

\* MapSync of ComparisonView.  Map A holds <MapSync otherMap={mapB} /> and
\* map B holds <MapSync otherMap={mapA} />; either has its own
\* isSyncingRef.  Leaflet fires its events synchronously, inside the call
\* that moves the map, so the events fired and not yet handled form a
\* stack: those of a nested setView are handled first.

Maps == {"A", "B"}

Other(m) == IF m = "A" THEN "B" ELSE "A"

\* MAP_CONFIG.center, and a second centre the user can pan to
Centers == {<<-28, 22>>, <<-26, 28>>}

\* zoom levels between MAP_CONFIG.minZoom and MAP_CONFIG.maxZoom
Zooms == {5, 6}

View(center, zoom) == [center |-> center, zoom |-> zoom]

Event(m, type) == [map |-> m, type |-> type]

\* the handler ignores isSyncingRef
syncMapsNeverReturns(m) == FALSE

\* if (isSyncingRef.current) return;
syncMapsReturns(m) == isSyncing[m]

\* the events of map m when its view is set to v without animation:
\* 'zoomend' when the zoom changes, then 'moveend' in every case
setViewEvents(m, v) ==
    IF mapView[m].zoom # v.zoom
    THEN <<Event(m, "zoomend"), Event(m, "moveend")>>
    ELSE <<Event(m, "moveend")>>

\* both maps are created with MAP_CONFIG, nothing is being synchronised and
\* the user has not touched a map
MapsReady ==
    /\ mapView = [m \in Maps |-> View(<<-28, 22>>, 5)]
    /\ isSyncing = [m \in Maps |-> FALSE]
    /\ events = <<>>
    /\ setViewCalls = 0
    /\ movedLast = "none"

\* the user pans map m to another centre: Leaflet fires 'moveend'
UserMove(m, c) ==
    /\ events = <<>>
    /\ c # mapView[m].center
    /\ mapView' = [mapView EXCEPT ![m].center = c]
    /\ events' = <<Event(m, "moveend")>>
    /\ setViewCalls' = 0
    /\ movedLast' = m
    /\ UNCHANGED <<isSyncing, engineVars, fetchVars, playerVars,
                   sectorVars>>

\* the user zooms map m, around any point: Leaflet fires 'zoomend', then
\* 'moveend'
UserZoom(m, c, z) ==
    /\ events = <<>>
    /\ z # mapView[m].zoom
    /\ mapView' = [mapView EXCEPT ![m] = View(c, z)]
    /\ events' = <<Event(m, "zoomend"), Event(m, "moveend")>>
    /\ setViewCalls' = 0
    /\ movedLast' = m
    /\ UNCHANGED <<isSyncing, engineVars, fetchVars, playerVars,
                   sectorVars>>

\* syncMaps of the map whose event is next: it returns when its ref is
\* set; otherwise it sets the ref, sets the view of the other map, whose
\* events come first, and starts the timer of 50 ms
HandleEvent ==
    /\ events # <<>>
    /\ LET m == Head(events).map
       IN  IF syncMapsReturns(m)
           THEN /\ events' = Tail(events)
                /\ UNCHANGED <<mapView, isSyncing, setViewCalls>>
           ELSE /\ isSyncing' = [isSyncing EXCEPT ![m] = TRUE]
                /\ mapView' = [mapView EXCEPT ![Other(m)] = mapView[m]]
                /\ setViewCalls' = setViewCalls + 1
                /\ events' = setViewEvents(Other(m), mapView[m])
                                 \o Tail(events)
    /\ UNCHANGED <<movedLast, engineVars, fetchVars, playerVars,
                   sectorVars>>

\* the timer of the MapSync of map m fires, once the running handlers have
\* returned: isSyncingRef.current = false
TimerFires(m) ==
    /\ events = <<>>
    /\ isSyncing[m]
    /\ isSyncing' = [isSyncing EXCEPT ![m] = FALSE]
    /\ UNCHANGED <<mapView, events, setViewCalls, movedLast, engineVars,
                   fetchVars, playerVars, sectorVars>>

\* Sectors.  A sector string is the sequence of its characters; the sector
\* field of an index is a string or undefined.

String(chars) == [kind |-> "string", chars |-> chars]

NoString == [kind |-> "undefined"]

All == String(<<"A", "l", "l">>)

\* the position of the first c in the characters s, 0 when there is none
RECURSIVE indexOf(_, _)
indexOf(s, c) ==
    IF s = <<>> THEN 0
    ELSE IF s[1] = c THEN 1
    ELSE LET k == indexOf(Tail(s), c) IN IF k = 0 THEN 0 ELSE k + 1

\* s.split(',')
RECURSIVE split(_)
split(s) ==
    LET k == indexOf(s, ",")
    IN  IF k = 0 THEN <<s>>
        ELSE <<SubSeq(s, 1, k - 1)>> \o split(SubSeq(s, k + 1, Len(s)))

\* s.trim()
RECURSIVE trim(_)
trim(s) ==
    IF s # <<>> /\ s[1] = " " THEN trim(Tail(s))
    ELSE IF s # <<>> /\ s[Len(s)] = " " THEN trim(SubSeq(s, 1, Len(s) - 1))
    ELSE s

isSectorRelevant(indexSectorString, targetSector) ==
    IF indexSectorString = NoString \/ indexSectorString = String(<<>>)
    THEN FALSE
    ELSE IF targetSector = All THEN TRUE
    ELSE IF indexSectorString = All THEN TRUE
    ELSE LET parts == split(indexSectorString.chars)
             sectors == [i \in 1..Len(parts) |-> trim(parts[i])]
         IN  \E i \in 1..Len(sectors) : String(sectors[i]) = targetSector

NoIndices == [kind |-> "null"]

IndexArray(array) == [kind |-> "array", array |-> array]

filterBySector(indices, targetSector) ==
    IF indices = NoIndices \/ indices = IndexArray(<<>>)
    THEN IndexArray(<<>>)
    ELSE IF targetSector = All THEN indices
    ELSE IndexArray(SelectSeq(indices.array,
                              LAMBDA x : isSectorRelevant(x.sector, targetSector)))

\* filterBySector has not been called
NoSectorCall ==
    /\ indexList = NoIndices
    /\ selectedSector = All
    /\ bySector = [kind |-> "none"]

\* the values of PERIODS (constants.js), in order
PERIODS ==
    <<"near-term_2021-2040", "mid-term_2041-2060", "far-term_2081-2100">>

\* TimeSeriesPlayer is mounted: useState(false)
PlayerMounted == isPlaying = FALSE

\* the state once App is mounted: the defaults of ClimateContext, and the
\* fetch effect has called fetchClimateData
AppMounted ==
    /\ scenario = "ssp245"
    /\ period = "near-term_2021-2040"
    /\ index = "cdd"
    /\ comparisonMode = FALSE
    /\ comparisonScenario = "ssp585"
    /\ geojsonData = NoResponse
    /\ loading = TRUE
    /\ error = NoError
    /\ latestMain = "pending"
    /\ geojsonA = NoResponse
    /\ geojsonB = NoResponse
    /\ loadingA = FALSE
    /\ loadingB = FALSE
    /\ fetchingA = FALSE
    /\ fetchingB = FALSE
    /\ panelFailed = FALSE
    /\ inFlight = StartMain(NoRequests,
                            <<"ssp245", "near-term_2021-2040", "cdd">>)

FetchInit ==
    /\ values = <<>>
    /\ metadata = NoMetadata
    /\ stats = NoStats
    /\ scale = NoScale
    /\ probe = UNDEFINED
    /\ color = NoColor
    /\ geojson = NoGeojson
    /\ districts = NoDistricts
    /\ outcome = "none"
    /\ NoLegendCall
    /\ AppMounted
    /\ MapsReady
    /\ PlayerMounted
    /\ NoSectorCall

\* the user acts only where that leaves at most MaxInFlight requests
\* awaiting their answer
UserActed == InFlightCount(inFlight') <= MaxInFlight

\* a change of scenario, period or index: the effect of App calls
\* fetchClimateData; in comparison mode the effect of panel A runs too,
\* and the effect of panel B unless only the scenario changed; either
\* starts a request only when its ref is not set
ConfigChanged(s, p, i, runsB) ==
    LET main == StartMain(inFlight, <<s, p, i>>)
        startsA == comparisonMode /\ ~fetchingA
        startsB == comparisonMode /\ runsB /\ ~fetchingB
        withA == IF startsA THEN StartPanel(main, "A", <<s, p, i>>) ELSE main
        withB == IF startsB
                 THEN StartPanel(withA, "B", <<comparisonScenario, p, i>>)
                 ELSE withA
    IN  /\ scenario' = s
        /\ period' = p
        /\ index' = i
        /\ loading' = TRUE
        /\ error' = NoError
        /\ latestMain' = "pending"
        /\ fetchingA' = (fetchingA \/ startsA)
        /\ loadingA' = (loadingA \/ startsA)
        /\ fetchingB' = (fetchingB \/ startsB)
        /\ loadingB' = (loadingB \/ startsB)
        /\ inFlight' = withB
        /\ UNCHANGED <<comparisonMode, comparisonScenario, geojsonData,
                       geojsonA, geojsonB, panelFailed, engineVars>>

\* ScenarioSelector
SetScenario(s) ==
    /\ s # scenario
    /\ ConfigChanged(s, period, index, FALSE)
    /\ UserActed
    /\ UNCHANGED componentVars

\* PeriodSelector, TimeSeriesPlayer
SetPeriod(p) ==
    /\ p # period
    /\ ConfigChanged(scenario, p, index, TRUE)
    /\ UserActed
    /\ UNCHANGED componentVars

\* IndexSelector
SetIndex(i) ==
    /\ i # index
    /\ ConfigChanged(scenario, period, i, TRUE)
    /\ UserActed
    /\ UNCHANGED componentVars

\* ComparisonScenarioSelector, shown in comparison mode only: the effect
\* of panel B runs
SetComparisonScenario(s) ==
    /\ comparisonMode
    /\ s # comparisonScenario
    /\ comparisonScenario' = s
    /\ LET startsB == ~fetchingB
       IN  /\ fetchingB' = TRUE
           /\ loadingB' = (loadingB \/ startsB)
           /\ inFlight' = IF startsB
                          THEN StartPanel(inFlight, "B", <<s, period, index>>)
                          ELSE inFlight
    /\ UserActed
    /\ UNCHANGED <<scenario, period, index, comparisonMode, mainVars,
                   geojsonA, geojsonB, loadingA, fetchingA, panelFailed,
                   engineVars, componentVars>>

\* ComparisonToggle, entering: ComparisonView is mounted with fresh state
\* and refs, and both its effects run
EnterComparison ==
    /\ ~comparisonMode
    /\ comparisonMode' = TRUE
    /\ comparisonScenario' = OtherScenario(scenario)
    /\ geojsonA' = NoResponse
    /\ geojsonB' = NoResponse
    /\ loadingA' = TRUE
    /\ loadingB' = TRUE
    /\ fetchingA' = TRUE
    /\ fetchingB' = TRUE
    /\ inFlight' =
           StartPanel(StartPanel(inFlight, "A", <<scenario, period, index>>),
                      "B", <<OtherScenario(scenario), period, index>>)
    /\ panelFailed' = FALSE
    /\ UserActed
    /\ UNCHANGED <<scenario, period, index, mainVars, engineVars,
                   componentVars>>

\* ComparisonToggle, leaving: ComparisonView is unmounted, its state and
\* refs are gone, its requests go on
ExitComparison ==
    /\ comparisonMode
    /\ comparisonMode' = FALSE
    /\ geojsonA' = NoResponse
    /\ geojsonB' = NoResponse
    /\ loadingA' = FALSE
    /\ loadingB' = FALSE
    /\ fetchingA' = FALSE
    /\ fetchingB' = FALSE
    /\ inFlight' = Unmarked(inFlight, {"A", "B"})
    /\ panelFailed' = FALSE
    /\ UNCHANGED <<scenario, period, index, comparisonScenario, mainVars,
                   engineVars, componentVars>>

\* err.message as it is, the empty message too
failureMessageRaw(text) == text

\* err.message || 'Failed to fetch climate data'
failureMessage(text) ==
    IF text = "" THEN "Failed to fetch climate data" ELSE text

\* the request r is answered: the try and finally blocks of its caller
Resolve(r) ==
    /\ r \in DOMAIN inFlight
    /\ inFlight' = WithoutRequest(inFlight, r)
    /\ IF r.owner = "main"
       THEN /\ geojsonData' = Response(r.params)
            /\ loading' = FALSE
            /\ latestMain' = IF r.latest THEN "succeeded" ELSE latestMain
            /\ UNCHANGED <<error, panelVars>>
       ELSE IF r.owner = "A" /\ r.mounted
       THEN /\ geojsonA' = Response(r.params)
            /\ loadingA' = FALSE
            /\ fetchingA' = FALSE
            /\ UNCHANGED <<mainVars, geojsonB, loadingB, fetchingB,
                           panelFailed>>
       ELSE IF r.owner = "B" /\ r.mounted
       THEN /\ geojsonB' = Response(r.params)
            /\ loadingB' = FALSE
            /\ fetchingB' = FALSE
            /\ UNCHANGED <<mainVars, geojsonA, loadingA, fetchingA,
                           panelFailed>>
       ELSE UNCHANGED <<mainVars, panelVars>>
    /\ UNCHANGED <<configVars, engineVars, componentVars>>

\* the request r fails with message text: the catch and finally blocks
Reject(r, text) ==
    /\ r \in DOMAIN inFlight
    /\ inFlight' = WithoutRequest(inFlight, r)
    /\ IF r.owner = "main"
       THEN /\ error' = ErrorMessage(failureMessage(text))
            /\ loading' = FALSE
            /\ latestMain' = IF r.latest THEN "failed" ELSE latestMain
            /\ UNCHANGED <<geojsonData, panelVars>>
       ELSE IF r.owner = "A" /\ r.mounted
       THEN /\ loadingA' = FALSE
            /\ fetchingA' = FALSE
            /\ panelFailed' = TRUE
            /\ UNCHANGED <<mainVars, geojsonA, geojsonB, loadingB, fetchingB>>
       ELSE IF r.owner = "B" /\ r.mounted
       THEN /\ loadingB' = FALSE
            /\ fetchingB' = FALSE
            /\ panelFailed' = TRUE
            /\ UNCHANGED <<mainVars, geojsonA, geojsonB, loadingA, fetchingA>>
       ELSE UNCHANGED <<mainVars, panelVars>>
    /\ UNCHANGED <<configVars, engineVars, componentVars>>

FetchNext ==
    \/ \E s \in ScenarioChoices : SetScenario(s)
    \/ \E p \in PeriodChoices : SetPeriod(p)
    \/ \E i \in IndexChoices : SetIndex(i)
    \/ \E s \in ScenarioChoices : SetComparisonScenario(s)
    \/ EnterComparison
    \/ ExitComparison
    \/ \E r \in DOMAIN inFlight : Resolve(r)
    \/ \E r \in DOMAIN inFlight, text \in ErrorMessages : Reject(r, text)

FetchSpec == FetchInit /\ [][FetchNext]_vars

----------------------------------------------------------------------------
\* The index metadata of Legend and of ClimateLayer.  The indices are loaded
\* and hold an entry for every index the user can pick.

NoIndexMetadata == [kind |-> "undefined"]

\* indices.find(idx => idx.code === code)
getIndexByCode(code) ==
    IF code \in IndexChoices
    THEN [kind |-> "index", code |-> code]
    ELSE NoIndexMetadata

\* Legend: getIndexByCode(index)
LegendIndexMetadata == getIndexByCode(index)

\* ClimateLayer: getIndexByCode(metadata.indexCode), where metadata holds
\* the index_code of the first feature of geojsonData; null without data
LayerIndexMetadata ==
    IF geojsonData = NoResponse
    THEN [kind |-> "null"]
    ELSE getIndexByCode(geojsonData.index)

----------------------------------------------------------------------------
\* Calls of filterBySector on every list of up to MaxIndices indices and
\* every target sector

\* the sector fields of the indices: "H", "HW", "H, HW", "HW,H ", "All",
\* the empty string and a missing field
SectorFields ==
    {String(<<"H">>), String(<<"H", "W">>),
     String(<<"H", ",", " ", "H", "W">>),
     String(<<"H", "W", ",", "H", " ">>), All, String(<<>>), NoString}

TargetSectors == {All, String(<<"H">>), String(<<"H", "W">>), String(<<"W">>)}

IndexLists ==
    UNION {{[i \in 1..k |-> [code |-> i, sector |-> f[i]]] :
                f \in [1..k -> SectorFields]} : k \in 0..MaxIndices}

SectorInit ==
    /\ values = <<>>
    /\ metadata = NoMetadata
    /\ stats = NoStats
    /\ scale = NoScale
    /\ probe = UNDEFINED
    /\ color = NoColor
    /\ geojson = NoGeojson
    /\ districts = NoDistricts
    /\ outcome = "none"
    /\ NoLegendCall
    /\ AppMounted
    /\ MapsReady
    /\ PlayerMounted
    /\ indexList \in {IndexArray(l) : l \in IndexLists} \cup {NoIndices}
    /\ selectedSector \in TargetSectors
    /\ bySector = [kind |-> "none"]

CallFilterBySector ==
    /\ bySector' = filterBySector(indexList, selectedSector)
    /\ UNCHANGED <<indexList, selectedSector, engineVars, fetchVars, mapVars,
                   playerVars>>

SectorNext == CallFilterBySector

SectorSpec == SectorInit /\ [][SectorNext]_vars

----------------------------------------------------------------------------
\* The single map: the selectors of scenario, period and index, and the
\* answers to the requests of fetchClimateData

MainFetchNext ==
    \/ \E s \in ScenarioChoices : SetScenario(s)
    \/ \E p \in PeriodChoices : SetPeriod(p)
    \/ \E i \in IndexChoices : SetIndex(i)
    \/ \E r \in DOMAIN inFlight : Resolve(r)
    \/ \E r \in DOMAIN inFlight, text \in ErrorMessages : Reject(r, text)

MainFetchSpec == FetchInit /\ [][MainFetchNext]_vars

----------------------------------------------------------------------------
\* TimeSeriesPlayer.  A change of the period re-renders the player and runs
\* the effect of App, which calls fetchClimateData; the effect of the player
\* keeps an interval running exactly while isPlaying, and its callback is
\* the goToNext of the current render.

\* PERIODS.findIndex(p => p.value === period)
findIndex(p) ==
    IF \E i \in 1..Len(PERIODS) : PERIODS[i] = p
    THEN (CHOOSE i \in 1..Len(PERIODS) : PERIODS[i] = p) - 1
    ELSE -1

currentIndex == findIndex(period)

\* the index after the current one, stopping at the last
nextIndexClamped(i) == IF i + 1 < Len(PERIODS) THEN i + 1 ELSE i

\* (currentIndex + 1) % PERIODS.length
nextIndex(i) == (i + 1) % Len(PERIODS)

\* currentIndex > 0 ? currentIndex - 1 : PERIODS.length - 1
prevIndex(i) == IF i > 0 THEN i - 1 ELSE Len(PERIODS) - 1

\* goToPeriod(i): setPeriod(PERIODS[i].value) for an index in range; setting
\* the period it already has changes no state
goToPeriod(i) ==
    IF i >= 0 /\ i < Len(PERIODS) /\ PERIODS[i + 1] # period
    THEN /\ ConfigChanged(scenario, PERIODS[i + 1], index, TRUE)
         /\ UserActed
    ELSE UNCHANGED <<fetchVars, engineVars>>

\* the buttons are disabled while loading
GoToFirst ==
    /\ ~loading
    /\ goToPeriod(0)
    /\ isPlaying' = FALSE
    /\ UNCHANGED <<mapVars, sectorVars>>

GoToLast ==
    /\ ~loading
    /\ goToPeriod(Len(PERIODS) - 1)
    /\ isPlaying' = FALSE
    /\ UNCHANGED <<mapVars, sectorVars>>

GoToPrevious ==
    /\ ~loading
    /\ goToPeriod(prevIndex(currentIndex))
    /\ UNCHANGED componentVars

GoToNext ==
    /\ ~loading
    /\ goToPeriod(nextIndex(currentIndex))
    /\ UNCHANGED componentVars

\* the numbered buttons under the progress bar, and goToPeriod called with
\* an index out of range
GoToPeriod(i) ==
    /\ goToPeriod(i)
    /\ UNCHANGED componentVars

TogglePlay ==
    /\ ~loading
    /\ isPlaying' = ~isPlaying
    /\ UNCHANGED <<fetchVars, engineVars, mapVars, sectorVars>>

\* the interval fires: goToNext
Tick ==
    /\ isPlaying
    /\ goToPeriod(nextIndex(currentIndex))
    /\ UNCHANGED componentVars

\* a request is answered or fails
Settle ==
    \E r \in DOMAIN inFlight :
        \/ Resolve(r)
        \/ \E text \in ErrorMessages : Reject(r, text)

PlayerIndices == -1..Len(PERIODS)

PlayerInit == FetchInit

PlayerNext ==
    \/ GoToFirst
    \/ GoToLast
    \/ GoToPrevious
    \/ GoToNext
    \/ \E i \in PlayerIndices : GoToPeriod(i)
    \/ TogglePlay
    \/ Tick
    \/ Settle

PlayerSpec == PlayerInit /\ [][PlayerNext]_vars

\* the interval keeps firing while the player plays, and every request is
\* answered or fails in the end
FairPlayerSpec == PlayerSpec /\ WF_vars(Tick) /\ WF_vars(Settle)

----------------------------------------------------------------------------
\* The two maps of ComparisonView under the user's pans and zooms

MapInit == FetchInit

MapNext ==
    \/ \E m \in Maps, c \in Centers : UserMove(m, c)
    \/ \E m \in Maps, c \in Centers, z \in Zooms : UserZoom(m, c, z)
    \/ HandleEvent
    \/ \E m \in Maps : TimerFires(m)

MapSpec == MapInit /\ [][MapNext]_vars

\* a handler that has started runs to its end, and so does the dispatch of
\* the events it fired
FairMapSpec == MapSpec /\ WF_vars(HandleEvent)

----------------------------------------------------------------------------
\* The arguments after a call.  An argument is an array or object the
\* caller still holds; these give its contents once the call has returned.

\* values.sort((a, b) => a - b) on the argument itself: an array of
\* numbers comes back sorted
valuesSortedInPlace(vals) ==
    IF \A i \in 1..Len(vals) : IsValid(vals[i])
    THEN [i \in 1..Len(vals) |-> Num(SortAsc(ValidValues(vals))[i])]
    ELSE vals

\* calculateStatistics: values.filter(...) and [...validValues] build new
\* arrays, sort works on the second of them, nothing is assigned to values
valuesAfterCalculateStatistics(vals) == vals

\* getColorScale: values.filter(...) builds a new array, Math.min / max
\* read it
valuesAfterGetColorScale(vals) == vals

\* aggregateByDistrict: the forEach reads feature.properties and pushes
\* new objects and numbers to arrays of the result
geojsonAfterAggregateByDistrict(g) == g

----------------------------------------------------------------------------
\* Calls of calculateStatistics on every array of at most MaxLen entries

StatsInit ==
    /\ values \in SeqsUpTo(StatEntries, MaxLen)
    /\ metadata = NoMetadata
    /\ stats = NoStats
    /\ scale = NoScale
    /\ probe = UNDEFINED
    /\ color = NoColor
    /\ geojson = NoGeojson
    /\ districts = NoDistricts
    /\ outcome = "none"
    /\ NoLegendCall
    /\ AppMounted
    /\ MapsReady
    /\ PlayerMounted
    /\ NoSectorCall

CallCalculateStatistics ==
    /\ stats' = calculateStatistics(values)
    /\ values' = valuesAfterCalculateStatistics(values)
    /\ outcome' = "returned"
    /\ UNCHANGED <<metadata, scale, probe, color, geojson, districts,
                 legendVars, fetchVars, componentVars>>

StatsNext == CallCalculateStatistics

StatsSpec == StatsInit /\ [][StatsNext]_vars

----------------------------------------------------------------------------
\* Calls of getColorScale on every metadata argument and every sample of at
\* most MaxSample entries, and of getColorForValue on the scale it returned

\* the numbers the samples and the looked-up values are drawn from
SampleNumbers == {N(-10), N(-5), N(0), N(5), N(10)}

SampleEntries == {Num(n) : n \in SampleNumbers} \cup Invalid

Init ==
    /\ values \in SeqsUpTo(SampleEntries, MaxSample)
    /\ metadata \in MetadataRecords \cup {NoMetadata, UndefinedMetadata}
    /\ stats = NoStats
    /\ scale = NoScale
    /\ probe = UNDEFINED
    /\ color = NoColor
    /\ geojson = NoGeojson
    /\ districts = NoDistricts
    /\ outcome = "none"
    /\ NoLegendCall
    /\ AppMounted
    /\ MapsReady
    /\ PlayerMounted
    /\ NoSectorCall

CallGetColorScale ==
    /\ scale' = getColorScale(metadata, values)
    /\ values' = valuesAfterGetColorScale(values)
    /\ outcome' = IF scale' = Threw THEN "threw" ELSE "returned"
    /\ UNCHANGED <<metadata, stats, probe, color, geojson, districts,
                 legendVars, fetchVars, componentVars>>

\* the callers look a value up only once they hold a scale
CallGetColorForValue(value) ==
    /\ scale.kind = "scale"
    /\ probe' = value
    /\ color' = getColorForValue(value, scale)
    /\ outcome' = "returned"
    /\ UNCHANGED <<values, metadata, stats, scale, geojson, districts,
                 legendVars, fetchVars, componentVars>>

Next ==
    \/ CallGetColorScale
    \/ \E value \in SampleEntries : CallGetColorForValue(value)

Spec == Init /\ [][Next]_vars

----------------------------------------------------------------------------
\* Calls of getColorScale of part_007 on every sample and every metadata
\* record of RampMetadata

\* the values of risk_direction the API documents, one it does not, and a
\* record without the field
RampDirections ==
    {"higher_worse", "lower_worse", "neutral", "mixed", "undefined"}

RampMetadata ==
    {Metadata(t, c, "undefined", r) :
         t \in PaletteTypes, c \in ColorSchemeNames, r \in RampDirections}

RampInit ==
    /\ values \in SeqsUpTo(SampleEntries, MaxSample)
    /\ metadata \in RampMetadata \cup {NoMetadata, UndefinedMetadata}
    /\ stats = NoStats
    /\ scale = NoScale
    /\ probe = UNDEFINED
    /\ color = NoColor
    /\ geojson = NoGeojson
    /\ districts = NoDistricts
    /\ outcome = "none"
    /\ NoLegendCall
    /\ AppMounted
    /\ MapsReady
    /\ PlayerMounted
    /\ NoSectorCall

CallGetColorScale_part_007 ==
    /\ scale' = getColorScale_part_007(metadata, values)
    /\ outcome' = "returned"
    /\ UNCHANGED <<values, metadata, stats, probe, color, geojson, districts,
                   legendVars, fetchVars, componentVars>>

RampNext == CallGetColorScale_part_007

RampSpec == RampInit /\ [][RampNext]_vars

----------------------------------------------------------------------------
\* Calls of aggregateByDistrict on every feature collection of at most
\* MaxFeatures features, and of calculateStatistics on the values of its
\* features

DistrictCodes == {"DC1", "DC2"}

FeatureValues == {Num(N(10)), Num(N(20)), NULL, NAN}

FeatureAreas == {Num(N(5)), Num(N(7)), UNDEFINED}

FeatureLists ==
    UNION {{[i \in 1..k |-> Feature(i, c[i], v[i], a[i])] :
                c \in [1..k -> DistrictCodes], v \in [1..k -> FeatureValues],
                a \in [1..k -> FeatureAreas]} : k \in 0..MaxFeatures}

\* geojson.features.map(feature => feature.properties.value)
FeatureValuesOf(g) ==
    IF g.kind = "FeatureCollection"
    THEN [i \in 1..Len(g.features) |-> g.features[i].value]
    ELSE <<>>

DistrictInit ==
    /\ geojson \in {FeatureCollection(f) : f \in FeatureLists}
                       \cup {NoGeojson, NoFeatures}
    /\ values = FeatureValuesOf(geojson)
    /\ metadata = NoMetadata
    /\ stats = NoStats
    /\ scale = NoScale
    /\ probe = UNDEFINED
    /\ color = NoColor
    /\ districts = NoDistricts
    /\ outcome = "none"
    /\ NoLegendCall
    /\ AppMounted
    /\ MapsReady
    /\ PlayerMounted
    /\ NoSectorCall

CallAggregateByDistrict ==
    /\ districts' = aggregateByDistrict(geojson)
    /\ geojson' = geojsonAfterAggregateByDistrict(geojson)
    /\ outcome' = "returned"
    /\ UNCHANGED <<values, metadata, stats, scale, probe, color,
                 legendVars, fetchVars, componentVars>>

DistrictNext ==
    \/ CallAggregateByDistrict
    \/ CallCalculateStatistics

DistrictSpec == DistrictInit /\ [][DistrictNext]_vars

----------------------------------------------------------------------------
\* Calls of the legend functions: getColorScale on a sample, then
\* generateLegendItems on the scale it returned with every steps argument
\* up to MaxSteps, and getInterpretationLabels (either revision) on every
\* direction code

\* the numbers the legend samples are drawn from
LegendNumbers == {N(-25), N(0), N(20)}

LegendEntries == {Num(n) : n \in LegendNumbers} \cup {NULL}

LegendMetadata ==
    {NoMetadata,
     Metadata("diverging", "RdBu_r", "positive_bad", "higher_worse"),
     Metadata("diverging", "BuRd", "positive_good", "lower_worse"),
     Metadata("sequential", "undefined", "undefined", "higher_worse")}

\* the direction codes of both schemas, an unknown code, and the missing
\* codes undefined and null
DirectionCodes ==
    {"positive_bad", "positive_good", "negative_warming", "positive_warming",
     "neutral", "higher_worse", "lower_worse", "unknown", "undefined", "null"}

LegendInit ==
    /\ values \in SeqsUpTo(LegendEntries, MaxSample)
    /\ metadata \in LegendMetadata
    /\ stats = NoStats
    /\ scale = NoScale
    /\ probe = UNDEFINED
    /\ color = NoColor
    /\ geojson = NoGeojson
    /\ districts = NoDistricts
    /\ outcome = "none"
    /\ NoLegendCall
    /\ AppMounted
    /\ MapsReady
    /\ PlayerMounted
    /\ NoSectorCall

\* the callers build the legend only once they hold a scale
CallGenerateLegendItems(n) ==
    /\ scale.kind = "scale"
    /\ steps' = n
    /\ items' = ItemsArray(generateLegendItems(scale, n))
    /\ outcome' = "returned"
    /\ UNCHANGED <<values, metadata, stats, scale, probe, color, geojson,
                   districts, direction, labels, revision, fetchVars,
                   componentVars>>

CallGetInterpretationLabels(code) ==
    /\ direction' = code
    /\ revision' = "colorMapping.js"
    /\ labels' = getInterpretationLabels(code)
    /\ outcome' = "returned"
    /\ UNCHANGED <<values, metadata, stats, scale, probe, color, geojson,
                   districts, steps, items, fetchVars,
                   componentVars>>

CallGetInterpretationLabels_part_007(code) ==
    /\ direction' = code
    /\ revision' = "part_007"
    /\ labels' = getInterpretationLabels_part_007(code)
    /\ outcome' = "returned"
    /\ UNCHANGED <<values, metadata, stats, scale, probe, color, geojson,
                   districts, steps, items, fetchVars,
                   componentVars>>

LegendNext ==
    \/ CallGetColorScale
    \/ \E n \in 0..MaxSteps : CallGenerateLegendItems(n)
    \/ \E code \in DirectionCodes : CallGetInterpretationLabels(code)
    \/ \E code \in DirectionCodes : CallGetInterpretationLabels_part_007(code)

LegendSpec == LegendInit /\ [][LegendNext]_vars

----------------------------------------------------------------------------
\* Calls of calculateStatistics, getColorScale and aggregateByDistrict, in
\* any order and any number, on one feature collection and its values

PurityFeatureLists ==
    UNION {{[i \in 1..k |-> Feature(i, c[i], v[i], Num(N(5)))] :
                c \in [1..k -> DistrictCodes], v \in [1..k -> FeatureValues]} :
           k \in 0..MaxFeatures}

PurityInit ==
    /\ geojson \in {FeatureCollection(f) : f \in PurityFeatureLists}
                       \cup {NoGeojson, NoFeatures}
    /\ values = FeatureValuesOf(geojson)
    /\ metadata \in {NoMetadata,
                     Metadata("diverging", "RdBu_r", "positive_bad",
                              "higher_worse")}
    /\ stats = NoStats
    /\ scale = NoScale
    /\ probe = UNDEFINED
    /\ color = NoColor
    /\ districts = NoDistricts
    /\ outcome = "none"
    /\ NoLegendCall
    /\ AppMounted
    /\ MapsReady
    /\ PlayerMounted
    /\ NoSectorCall

PurityNext ==
    \/ CallCalculateStatistics
    \/ CallGetColorScale
    \/ CallAggregateByDistrict

PuritySpec == PurityInit /\ [][PurityNext]_vars

----------------------------------------------------------------------------
\* Properties of calculateStatistics (StatsSpec)

\* the numbers among the entries of an array, in order
NumbersOf(vals) ==
    LET kept == SelectSeq(vals, LAMBDA v : v.kind = "number")
    IN  [i \in 1..Len(kept) |-> kept[i].n]

Range(s) == {s[i] : i \in DOMAIN s}

Least(s) == CHOOSE x \in Range(s) : \A y \in Range(s) : x <= y

Greatest(s) == CHOOSE x \in Range(s) : \A y \in Range(s) : x >= y

\* x stands at zero-based position k of s sorted ascending
AtSortedIndex(s, k, x) ==
    /\ x \in Range(s)
    /\ Cardinality({i \in DOMAIN s : s[i] < x}) <= k
    /\ k < Cardinality({i \in DOMAIN s : s[i] <= x})

OneToFour == <<Num(N(1)), Num(N(2)), Num(N(3)), Num(N(4))>>

\* C3: for every array with at least one valid number, calculateStatistics
\* returns the smallest valid entry as min, the largest as max, and a mean
\* with min <= mean <= max.
\* (min and max are exact; the mean is a rounded sum divided and rounded
\* again, and three equal entries whose sum is not representable already
\* put it outside [min, max]: [11, 11, 11] here, [0.1, 0.1, 0.1] in IEEE
\* double precision.)
C3_MeanBetweenMinAndMax ==
    stats # NoStats =>
        LET v == NumbersOf(values)
        IN  Len(v) >= 1 =>
                /\ stats.min = Least(v)
                /\ stats.max = Greatest(v)
                /\ stats.min <= stats.mean
                /\ stats.mean <= stats.max

\* C4: when the array has no valid entry (it is empty, or holds only null,
\* undefined and NaN), calculateStatistics returns {0, 0, 0, 0} and does not
\* throw.
C4_AllZeroWithoutValidEntry ==
    (stats # NoStats /\ NumbersOf(values) = <<>>) =>
        /\ stats = Stats(0, 0, 0, 0)
        /\ outcome = "returned"

C4_Witness ==
    /\ stats = Stats(0, 0, 0, 0)
    /\ values = <<NULL, UNDEFINED, NAN>>

\* C5: with n >= 1 valid entries the median is the element at zero-based
\* index floor(n/2) of the valid entries sorted ascending; for [1,2,3,4] it
\* is 3 and not the average 2.5 of the two middle elements.
C5_MedianAtFloorHalf ==
    stats # NoStats =>
        LET v == NumbersOf(values)
        IN  /\ Len(v) >= 1 => AtSortedIndex(v, Len(v) \div 2, stats.median)
            /\ values = OneToFour =>
                   /\ stats.median = N(3)
                   /\ 2 * stats.median # N(2) + N(3)

C5_Witness ==
    /\ stats # NoStats
    /\ values = OneToFour
    /\ stats.median = N(3)

----------------------------------------------------------------------------
\* Properties of getColorScale and getColorForValue (Spec)

Max2(a, b) == IF a > b THEN a ELSE b

\* max(|min|, |max|) over the numbers of a sample, 1 when it has none
AbsMaxOf(vals) ==
    LET v == NumbersOf(vals)
    IN  IF v = <<>> THEN N(1) ELSE Max2(Abs(Least(v)), Abs(Greatest(v)))

ScaleBuilt == scale # NoScale /\ metadata.kind = "object"

C2_SymmetricDomain ==
    ScaleBuilt =>
        /\ scale.kind = "scale"
        /\ scale.domain = <<-AbsMaxOf(values), 0, AbsMaxOf(values)>>
        /\ scale.domain[1] = -scale.domain[3]
        /\ scale.domain[2] = 0
        /\ NumbersOf(values) = <<>> => scale.domain = <<N(-1), 0, N(1)>>

C2_Witness ==
    /\ ScaleBuilt
    /\ values = <<Num(N(-10)), Num(N(5))>>
    /\ scale.domain = <<N(-10), 0, N(10)>>

\* C7: with absent metadata (null or undefined) getColorScale returns, for
\* any sample and without throwing, the constant one-colour scale '#3388ff'
\* with domain [0, 1].
C7_FallbackScaleWithoutMetadata ==
    (scale # NoScale /\ metadata.kind \in {"null", "undefined"}) =>
        /\ scale = chromaScale(<<"#3388ff">>, <<0, N(1)>>, "rgb")
        /\ \A n \in SampleNumbers : chromaScaleAt(scale, n) = Hex("#3388ff")

C7_Witness ==
    /\ scale.kind = "scale"
    /\ metadata = UndefinedMetadata
    /\ NumbersOf(values) # <<>>

C9_ColorBrewerOrientation ==
    (ScaleBuilt /\ scale.kind = "scale"
        /\ metadata.color_palette_type = "diverging") =>
        LET low == chromaScaleAt(scale, -AbsMaxOf(values))
            high == chromaScaleAt(scale, AbsMaxOf(values))
        IN  /\ metadata.color_scheme = "RdBu" =>
                   low = Hex("#b2182b") /\ high = Hex("#2166ac")
            /\ metadata.color_scheme = "BuRd" =>
                   low = Hex("#2166ac") /\ high = Hex("#b2182b")

\* the sample of the round-trip example
RoundTripSample == <<Num(N(-5)), Num(N(0)), Num(N(5)), Num(N(10))>>

\* C10: on a scale built from metadata and a sample with absMax > 0,
\* getColorForValue gives the first colour of the ramp at -absMax, the
\* neutral '#f7f7f7' at 0 and the last colour at +absMax, also when -absMax
\* or +absMax is no member of the sample (sample [-5, 0, 5, 10]: absMax 10).
C10_EndpointsAndMidpoint ==
    /\ (ScaleBuilt /\ color # NoColor /\ probe.kind = "number"
           /\ AbsMaxOf(values) > 0) =>
           /\ probe.n = -AbsMaxOf(values) => color = Hex(scale.colors[1])
           /\ probe.n = 0 => color = Hex("#f7f7f7")
           /\ probe.n = AbsMaxOf(values) => color = Hex(scale.colors[3])
    /\ ScaleBuilt =>
           LET sc == getColorScale(metadata, RoundTripSample)
           IN  /\ sc.domain[3] = N(10)
               /\ getColorForValue(Num(N(10)), sc) = Hex(sc.colors[3])
               /\ getColorForValue(Num(N(0)), sc) = Hex("#f7f7f7")
               /\ getColorForValue(Num(N(-10)), sc) = Hex(sc.colors[1])

C10_Witness ==
    /\ ScaleBuilt
    /\ values = <<Num(N(-5)), Num(N(10))>>
    /\ probe = Num(N(-10))
    /\ color = Hex(scale.colors[1])

\* the control colours of the three palettes and of the fallback scale
ControlColors ==
    UNION {Range(COLOR_SCHEMES[k]) : k \in DOMAIN COLOR_SCHEMES}
        \cup {BLUE, WHITE, RED, FALLBACK_BLUE}

\* C11: for a null, undefined or NaN value getColorForValue returns the gray
\* '#cccccc' with every scale, and without calling the scale (it returns
\* the gray also where there is no scale to call); the gray is none of the
\* control colours of the three palettes or of the fallback scale.
C11_GrayForMissingValue ==
    /\ (color # NoColor /\ probe \in Invalid) =>
           /\ color = Hex("#cccccc")
           /\ getColorForValue(probe, NoScale) = Hex("#cccccc")
    /\ GRAY = "#cccccc"
    /\ GRAY \notin ControlColors

C11_Witness ==
    /\ ScaleBuilt
    /\ scale.kind = "scale"
    /\ probe = NAN
    /\ color = Hex("#cccccc")

----------------------------------------------------------------------------
\* Properties of the medians (DistrictSpec)

\* the numbers among the values of the features of district c, in order
DistrictNumbers(g, c) ==
    IF g.kind # "FeatureCollection" THEN <<>>
    ELSE LET own == SelectSeq(g.features, LAMBDA f : f.district_code = c)
         IN  NumbersOf([i \in 1..Len(own) |-> own[i].value])

EvenSample(v) == Len(v) >= 2 /\ Len(v) % 2 = 0

\* C6, as claimed: for an even-length sample of valid numbers the median
\* returned by calculateStatistics, and the median aggregateByDistrict
\* stores on a district, is the lower of the two middle elements of the
\* sorted sample.
C6_MedianIsLowerMiddle ==
    /\ stats # NoStats =>
           LET v == NumbersOf(values)
           IN  EvenSample(v) => AtSortedIndex(v, Len(v) \div 2 - 1, stats.median)
    /\ districts # NoDistricts =>
           \A c \in DOMAIN districts :
               LET v == DistrictNumbers(geojson, c)
               IN  EvenSample(v) =>
                       AtSortedIndex(v, Len(v) \div 2 - 1, districts[c].median)

\* C6, amended: for an even-length sample of valid numbers both medians are
\* the upper of the two middle elements of the sorted sample (zero-based
\* index n/2).
C6_MedianIsUpperMiddle ==
    /\ stats # NoStats =>
           LET v == NumbersOf(values)
           IN  EvenSample(v) => AtSortedIndex(v, Len(v) \div 2, stats.median)
    /\ districts # NoDistricts =>
           \A c \in DOMAIN districts :
               LET v == DistrictNumbers(geojson, c)
               IN  EvenSample(v) =>
                       AtSortedIndex(v, Len(v) \div 2, districts[c].median)

C6_Witness ==
    /\ stats # NoStats
    /\ districts # NoDistricts
    /\ DOMAIN districts = {"DC1"}
    /\ DistrictNumbers(geojson, "DC1") = <<N(20), N(10)>>
    /\ districts["DC1"].median = N(20)
    /\ stats.median = N(20)

----------------------------------------------------------------------------
\* Properties of generateLegendItems and getInterpretationLabels (LegendSpec)

DomainMin == scale.domain[1]

DomainMax == scale.domain[Len(scale.domain)]

\* the step (max - min) / (steps - 1) has a full significand, so that
\* nothing below is owed to the gradual underflow of small numbers
NormalStep ==
    Abs(Div(Sub(DomainMax, DomainMin), steps - 1)) >= 2^(Prec - 1)

\* C12: for steps n >= 2 generateLegendItems returns exactly n entries in
\* ascending order, each with the scale's colour at its value; the first
\* value is the domain minimum lo and the last the domain maximum hi.
C12_LegendSpansDomain ==
    (items # NoItems /\ steps >= 2 /\ NormalStep) =>
        LET a == items.array
        IN  /\ Len(a) = steps
            /\ \A i \in 1..Len(a) :
                   /\ a[i].value.kind = "number"
                   /\ a[i].color = chromaScaleAt(scale, a[i].value.n)
            /\ \A i \in 1..(Len(a) - 1) : a[i].value.n <= a[i + 1].value.n
            /\ a[1].value.n = DomainMin
            /\ a[Len(a)].value.n = DomainMax

\* C13: a call with steps < 2 still returns at least two entries, with
\* finite values, the first the domain minimum and the last the domain
\* maximum.
C13_StepsGuardedAtTwo ==
    (items # NoItems /\ steps < 2) =>
        LET a == items.array
        IN  /\ Len(a) >= 2
            /\ \A i \in 1..Len(a) : a[i].value.kind = "number"
            /\ a[1].value = Num(DomainMin)
            /\ a[Len(a)].value = Num(DomainMax)


\* the codes getInterpretationLabels of colorMapping.js has a case for
KnownCodes ==
    {"positive_bad", "positive_good", "negative_warming", "positive_warming",
     "neutral"}

\* C14: getInterpretationLabels (colorMapping.js) is a total lookup:
\* 'positive_bad' gives Worse/Better, 'positive_good' Better/Worse,
\* 'negative_warming' Cooling/Warming, 'positive_warming' Warming/Cooling,
\* 'neutral' and every unknown or missing code Increase/Decrease; neutral
\* is 'No Change' in every case and every call returns.
C14_LabelsAreTotalLookup ==
    (labels # NoLabels /\ revision = "colorMapping.js") =>
        /\ outcome = "returned"
        /\ labels.kind = "labels"
        /\ labels.neutral = "No Change"
        /\ direction = "positive_bad" =>
               labels.positive = "Worse" /\ labels.negative = "Better"
        /\ direction = "positive_good" =>
               labels.positive = "Better" /\ labels.negative = "Worse"
        /\ direction = "negative_warming" =>
               labels.positive = "Cooling" /\ labels.negative = "Warming"
        /\ direction = "positive_warming" =>
               labels.positive = "Warming" /\ labels.negative = "Cooling"
        /\ (direction = "neutral" \/ direction \notin KnownCodes) =>
               labels.positive = "Increase" /\ labels.negative = "Decrease"

C14_Witness ==
    /\ revision = "colorMapping.js"
    /\ direction = "positive_good"
    /\ labels = Labels("Better", "Worse", "No Change")

\* C15: the lookup is keyed by the risk_direction schema too:
\* 'higher_worse' gives Worse/Better/No Change, 'lower_worse' gives a
\* better/cooling label for positive and a worse/warming label for
\* negative; neither gives the generic Increase/Decrease.
C15_RiskDirectionKeys ==
    labels # NoLabels =>
        /\ direction = "higher_worse" =>
               labels = Labels("Worse", "Better", "No Change")
        /\ direction = "lower_worse" =>
               /\ labels.positive \in {"Better", "Cooling", "Better/Cooling"}
               /\ labels.negative \in {"Worse", "Warming", "Worse/Warming"}
        /\ direction \in {"higher_worse", "lower_worse"} =>
               labels.positive # "Increase" /\ labels.negative # "Decrease"


----------------------------------------------------------------------------
\* Properties of aggregateByDistrict (DistrictSpec)

\* the features of district c, in order
DistrictFeatures(g, c) ==
    SelectSeq(g.features, LAMBDA f : f.district_code = c)

\* the exact sum of a sequence of integers
RECURSIVE ExactSum(_)
ExactSum(s) == IF s = <<>> THEN 0 ELSE s[1] + ExactSum(Tail(s))

\* the areas of the features, a missing area as 0
AreasOf(features) ==
    [i \in 1..Len(features) |->
        IF features[i].area_km2.kind = "number" THEN features[i].area_km2.n
        ELSE 0]

\* the example of the specification
TwoOfDC1 ==
    FeatureCollection(<<Feature(1, "DC1", Num(N(10)), Num(N(5))),
                        Feature(2, "DC1", Num(N(20)), Num(N(7)))>>)

ExactSquares(s) == [i \in 1..Len(s) |-> s[i] * s[i]]

\* n * n times the population variance of s, exactly:
\* n * sum(x^2) - sum(x)^2
ScaledVariance(s) ==
    Len(s) * ExactSum(ExactSquares(s)) - ExactSum(s) * ExactSum(s)

----------------------------------------------------------------------------
\* Properties of the fetches (FetchSpec)

\* the requests awaiting their answer that r.owner would see
MainInFlight == {r \in DOMAIN inFlight : r.owner = "main"}

PanelInFlight == {r \in DOMAIN inFlight : r.owner # "main" /\ r.mounted}

\* C18: no two requests for the same (scenario, period, index) await their
\* answer at the same time, whichever of fetchClimateData, fetchDataA and
\* fetchDataB made them.
C18_NoDuplicateFetch ==
    \A r \in DOMAIN inFlight :
        /\ inFlight[r] = 1
        /\ \A q \in DOMAIN inFlight : q.params = r.params => q = r

\* C19: in single-map mode, once no request of fetchClimateData awaits its
\* answer and the call started last has succeeded, geojsonData is the
\* response for the selected (scenario, period, index).
C19_NoStaleSingleMap ==
    (~comparisonMode /\ MainInFlight = {} /\ latestMain = "succeeded") =>
        geojsonData = Response(<<scenario, period, index>>)

\* C20: in comparison mode, once no request of either panel awaits its
\* answer and none has failed, geojsonA is the response for (scenario,
\* period, index) and geojsonB the response for (comparisonScenario,
\* period, index).
C20_PanelsFollowConfiguration ==
    (comparisonMode /\ PanelInFlight = {} /\ ~fetchingA /\ ~fetchingB
         /\ ~panelFailed) =>
        /\ geojsonA = Response(<<scenario, period, index>>)
        /\ geojsonB = Response(<<comparisonScenario, period, index>>)


----------------------------------------------------------------------------
\* Properties of the calls together (PuritySpec)

----------------------------------------------------------------------------
\* Properties of MapSync (MapSpec, FairMapSpec)

\* C22: one pan or zoom of the user leads to at most two setView calls, one
\* by either handler; a handler whose isSyncingRef is set calls no setView
\* and moves no map; and the events of one user action are all handled, after
\* which none is left to handle
C22_SyncTerminates ==
    /\ [](setViewCalls <= 2 /\ Len(events) <= 3)
    /\ [][(events # <<>> /\ isSyncing[Head(events).map]) =>
              (mapView' = mapView /\ setViewCalls' = setViewCalls
               /\ events' = Tail(events))]_vars
    /\ (events # <<>>) ~> (events = <<>>)

\* a zoom of map A has been answered by both handlers
C22_Witness ==
    /\ movedLast = "A"
    /\ setViewCalls = 2
    /\ events = <<>>
    /\ mapView["A"].zoom = 6
    /\ mapView["B"] = mapView["A"]

\* C23: once every event is handled and every timer has fired, both maps
\* show the view of the map the user moved last
C23_MapsEndInSameView ==
    (events = <<>> /\ ~isSyncing["A"] /\ ~isSyncing["B"]
     /\ movedLast # "none") =>
        /\ mapView["A"] = mapView["B"]
        /\ mapView["A"] = mapView[movedLast]


----------------------------------------------------------------------------
\* Properties of TimeSeriesPlayer (PlayerSpec, FairPlayerSpec)

PeriodValues == {PERIODS[i] : i \in 1..Len(PERIODS)}

\* the value after p in PERIODS, the first after the last
Successor(p) ==
    IF p = PERIODS[Len(PERIODS)] THEN PERIODS[1]
    ELSE PERIODS[(CHOOSE i \in 1..Len(PERIODS) : PERIODS[i] = p) + 1]

\* the value before p in PERIODS, the last before the first
Predecessor(p) == CHOOSE q \in PeriodValues : Successor(q) = p

----------------------------------------------------------------------------
\* Properties of fetchClimateData (MainFetchSpec)

\* C25: when a request of fetchClimateData fails, error is the message of
\* the failure, or 'Failed to fetch climate data' when that is empty,
\* loading is false and geojsonData is what it was; and whenever
\* fetchClimateData starts a request, error is null
C25_FailureSetsErrorOnly ==
    /\ [][\A r \in MainInFlight, text \in ErrorMessages :
              Reject(r, text) =>
                  /\ error' = ErrorMessage(IF text = ""
                                           THEN "Failed to fetch climate data"
                                           ELSE text)
                  /\ ~loading'
                  /\ geojsonData' = geojsonData]_vars
    /\ [][InFlightCount(inFlight') > InFlightCount(inFlight) =>
              error' = NoError]_vars

\* a request failed with an empty message after an earlier one was answered
C25_Witness ==
    /\ error = ErrorMessage("Failed to fetch climate data")
    /\ ~loading
    /\ latestMain = "failed"
    /\ geojsonData # NoResponse


\* C26: loading is true exactly when a request of fetchClimateData awaits
\* its answer
C26_LoadingWhileRequestPending == loading <=> (MainInFlight # {})


\* C27: whenever data is loaded, the index metadata of Legend is the index
\* metadata of ClimateLayer
C27_LegendMatchesLayer ==
    geojsonData # NoResponse => LegendIndexMetadata = LayerIndexMetadata


----------------------------------------------------------------------------
\* Properties of aggregateByDistrict as a grouping (DistrictSpec)

\* what aggregateByDistrict keeps of a feature
Municipality(f) == [id |-> f.id, value |-> f.value, area |-> f.area_km2]

\* the counts of the districts cs of d, added up
RECURSIVE TotalCount(_, _)
TotalCount(d, cs) ==
    IF cs = {} THEN 0
    ELSE LET c == CHOOSE x \in cs : TRUE
         IN  d[c].count + TotalCount(d, cs \ {c})

----------------------------------------------------------------------------
\* Properties of filterBySector (SectorSpec)

\* C29: filterBySector returns the indices for which isSectorRelevant holds
\* of their sector and the target, in their order
C29_FilterAgreesWithIsSectorRelevant ==
    bySector.kind = "array" =>
        bySector.array =
            IF indexList = NoIndices THEN <<>>
            ELSE SelectSeq(indexList.array,
                           LAMBDA x : isSectorRelevant(x.sector, selectedSector))


----------------------------------------------------------------------------
\* Properties of getColorScale of part_007 (RampSpec)

\* C30: the scale getColorScale of part_007 returns for a metadata record
\* is the scale it returns for the same record with any other color_scheme
\* and any other palette type; its colours are blue, white, red when
\* risk_direction is 'higher_worse' or a value the switch does not know, and
\* red, white, blue when it is 'lower_worse' or 'neutral'; none of the nine
\* colours of the color_scheme ramp beside these three is in it
C30_RampFollowsRiskDirectionOnly ==
    (scale.kind = "scale" /\ metadata.kind = "object") =>
        /\ \A t \in PaletteTypes, c \in ColorSchemeNames :
               getColorScale_part_007(
                   Metadata(t, c, metadata.anomaly_direction,
                            metadata.risk_direction), values) = scale
        /\ scale.colors =
               IF metadata.risk_direction \in {"lower_worse", "neutral"}
               THEN <<"#b2182b", "#f7f7f7", "#2166ac">>
               ELSE <<"#2166ac", "#f7f7f7", "#b2182b">>
        /\ scale.domain = <<-SampleAbsMax(values), 0, SampleAbsMax(values)>>

\* a record with scheme BuRd and direction neutral has been given its scale
C30_Witness ==
    /\ scale.kind = "scale"
    /\ metadata.kind = "object"
    /\ metadata.color_scheme = "BuRd"
    /\ metadata.risk_direction = "neutral"
    /\ scale.colors = <<RED, WHITE, BLUE>>
    /\ values = <<Num(N(-10)), Num(N(5))>>

====
